---- MODULE Spec2Model ----
(***************************************************************************)
(* Model of dialog.py: StoryTree.export (intent extraction, label rewrite, *)
(* the graph-to-tree walk StoryNode.tree, the start condition and the      *)
(* encoding of the walk's result).                                         *)
(*                                                                         *)
(* Strings that the code only compares or concatenates (node ids) are TLA+ *)
(* strings.  Choice labels, which the code rewrites character by           *)
(* character (str.replace), are sequences of tokens: every separator       *)
(* character (" ", "'", "_", "#") is a token of its own and every maximal  *)
(* run of letters is one token, so two labels are equal as Python strings  *)
(* exactly when their token sequences are equal.                           *)
(*                                                                         *)
(* Python objects are addressed by reference: a StoryNode is its position  *)
(* in StoryTree.nodes, a StoryNodePointer its position in the heap `ptrs`. *)
(* The model covers a StoryTree whose voice map is set and empty, and      *)
(* leaves the text payload of a node out.                                  *)
(***************************************************************************)
EXTENDS Naturals, Sequences, FiniteSets, TLC

\* ---------------------------------------------------------------- bounds
\* nodes of a script, choices of a script (all nodes together), calls of export
MaxNodes == 3
MaxEdges == 3
MaxRuns == 2
\* tree() is entered once for the root and at most once more per node, so
\* the walk of the code never needs more than MaxNodes + 1 frames.
MaxDepth == MaxNodes + 2

\* ---------------------------------------------------------------- inputs
IdPool == <<"A", "B", "C", "D", "E", "F">>

\* The labels of the script: row p holds the labels of the p-th node's
\* choices in insertion order.
LabelTable ==
  << << <<"go", " ", "left">>, <<"go", " ", "right">>, <<"look">>,
        <<"wait">>, <<"anything", "_", "else">> >>,
     << <<"back">>, <<"anything", "_", "else">>, <<"go", " ", "left">>,
        <<"look">>, <<"wait">> >>,
     << <<"can", "'", "t", " ", "go">>, <<"can", "_", "t", " ", "go">>,
        <<"back">>, <<"look">>, <<"wait">> >> >>

LabelOf(p, k) ==
  LET row == LabelTable[((p - 1) % Len(LabelTable)) + 1]
  IN  row[((k - 1) % Len(row)) + 1]

\* ------------------------------------------------------------ references
None == [kind |-> "none", at |-> 0]
NodeRef(p) == [kind |-> "node", at |-> p]
PtrRef(q) == [kind |-> "ptr", at |-> q]

VARIABLES
  nodes,    \* StoryTree.nodes: the StoryNode objects, in input order
  ptrs,     \* the StoryNodePointer objects created so far
  stack,    \* the active calls of StoryNode.tree, outermost first
  pc,       \* "idle" (no export running), "tree" (in the walk), "error"
  intents,  \* the encoded intents of the running or last export
  tree,     \* the list returned by the last root.tree(nodes)
  docs,     \* the documents returned by export, one per completed call
  error     \* the exception that ended export, if any

vars == <<nodes, ptrs, stack, pc, intents, tree, docs, error>>

\* ------------------------------------------------------------ StoryNode
StoryNode(id, responses, children) ==
  [ id |-> id,
    children |-> [k \in 1..Len(responses) |->
                    [response |-> responses[k], child |-> children[k]]],
    parent |-> None,
    previous_sibling |-> None,
    conditions |-> <<>> ]

\* The targets a script of n nodes may name: its n ids and one missing id.
TargetIds(n) == {IdPool[j] : j \in 1..(n + 1)}

\* The choices of a script of n nodes, as rows <<node, target id>> listed
\* node by node.
EdgeLists(n) ==
  UNION {{e \in [1..m -> (1..n) \X TargetIds(n)] :
            \A i \in 1..m : \A j \in 1..m : i < j => e[i][1] <= e[j][1]} :
         m \in 0..MaxEdges}

\* A script of n nodes: node p gets the targets of its rows, in order.
Script(n, edges) ==
  [p \in 1..n |->
     LET mine == SelectSeq(edges, LAMBDA e : e[1] = p) IN
     StoryNode(IdPool[p],
               [k \in 1..Len(mine) |-> LabelOf(p, k)],
               [k \in 1..Len(mine) |-> mine[k][2]])]

\* ------------------------------------------------------------ dict helpers
Ids == {nodes[p].id : p \in DOMAIN nodes}

\* story_nodes[id]: the node object registered under id.
StoryNodes(id) == CHOOSE p \in DOMAIN nodes : nodes[p].id = id

RECURSIVE DictSetFrom(_, _, _, _)
DictSetFrom(d, k, v, i) ==
  IF i > Len(d) THEN Append(d, [response |-> k, child |-> v])
  ELSE IF d[i].response = k THEN [d EXCEPT ![i].child = v]
  ELSE DictSetFrom(d, k, v, i + 1)

\* d[k] = v on an insertion-ordered dict.
DictSet(d, k, v) == DictSetFrom(d, k, v, 1)

\* ------------------------------------------------------- intent extraction
ConversationStart == <<"conversation", "_", "start">>
AnythingElse == <<"anything", "_", "else">>
Reserved == {ConversationStart, AnythingElse}

Replace(s, old, new) ==
  [i \in 1..Len(s) |-> IF s[i] = old THEN new ELSE s[i]]

SafeResponse(r) == Replace(Replace(r, " ", "_"), "'", "_")

\* list(set(responses)): the distinct labels of all nodes.
AllResponses(ns) ==
  UNION {{ns[p].children[k].response : k \in DOMAIN ns[p].children} :
           p \in DOMAIN ns}

\* Intent(safe_response, response).encode()
Intent(id, example) == [intent |-> id, examples |-> <<example>>]

Intents(ns) ==
  {Intent(SafeResponse(r), r) : r \in AllResponses(ns) \ Reserved}

ResponseToIntent(r) == <<"#">> \o SafeResponse(r)

RECURSIVE NewResponsesFrom(_, _, _)
NewResponsesFrom(children, i, acc) ==
  IF i > Len(children) THEN acc
  ELSE LET r == children[i].response
           key == IF r \notin Reserved THEN ResponseToIntent(r) ELSE r
       IN  NewResponsesFrom(children, i + 1,
                            DictSet(acc, key, children[i].child))

\* The rewritten choice mapping of one node.
NewResponses(children) == NewResponsesFrom(children, 1, <<>>)

\* ------------------------------------------------------------- encoders
Opt(ns, ps, ref) ==
  IF ref.kind = "none" THEN <<>>
  ELSE IF ref.kind = "node" THEN <<ns[ref.at].id>> ELSE <<ps[ref.at].id>>

\* StoryNode.encode: absent keys are empty sequences.
EncodeNode(ns, ps, p) ==
  [ title |-> ns[p].id,
    has_output |-> TRUE,
    dialog_node |-> ns[p].id,
    parent |-> Opt(ns, ps, ns[p].parent),
    previous_sibling |-> Opt(ns, ps, ns[p].previous_sibling),
    conditions |-> ns[p].conditions,
    next_step |-> <<>> ]

\* StoryNodePointer.encode
EncodePointer(ns, ps, q) ==
  [ title |-> ns[ps[q].target].id,
    has_output |-> FALSE,
    dialog_node |-> ps[q].id,
    parent |-> <<ns[ps[q].source].id>>,
    previous_sibling |-> Opt(ns, ps, ps[q].previous_sibling),
    conditions |-> ps[q].conditions,
    next_step |-> <<ns[ps[q].target].id>> ]

Encode(ns, ps, ref) ==
  IF ref.kind = "node" THEN EncodeNode(ns, ps, ref.at)
  ELSE EncodePointer(ns, ps, ref.at)

\* StoryNodePointer(source, target, condition, previous_sibling)
StoryNodePointer(ns, source, target, condition, previous_sibling) ==
  [ source |-> source,
    target |-> target,
    conditions |-> <<condition>>,
    previous_sibling |-> previous_sibling,
    id |-> ns[source].id \o "-" \o ns[target].id ]

\* ----------------------------------------------------------------- walk
Top == stack[Len(stack)]
Self == nodes[Top.self]
\* the loop of tree stopping one choice early
HasNextSkipLast == Top.i < Len(Self.children)
HasNext == Top.i <= Len(Self.children)
Response == Self.children[Top.i].response
ChildId == Self.children[Top.i].child

Frame(p) == [self |-> p, i |-> 1, previous_sibling |-> None,
             nodes |-> <<NodeRef(p)>>]

\* the placed test lost: every target is walked into
UnplacedAlways(child) == TRUE
\* child.parent is None
Unplaced(child) == child.parent = None

Init ==
  /\ \E n \in 1..MaxNodes :
       \E edges \in EdgeLists(n) : nodes = Script(n, edges)
  /\ ptrs = <<>>
  /\ stack = <<>>
  /\ pc = "idle"
  /\ intents = {}
  /\ tree = <<>>
  /\ docs = <<>>
  /\ error = <<>>

\* export, lines 142-170: intents, label rewrite, the call of root.tree.
Export ==
  /\ pc = "idle"
  /\ Len(docs) < MaxRuns
  /\ intents' = Intents(nodes)
  /\ nodes' = [p \in DOMAIN nodes |->
                [nodes[p] EXCEPT !.children = NewResponses(@)]]
  /\ stack' = <<Frame(1)>>
  /\ pc' = "tree"
  /\ UNCHANGED <<ptrs, tree, docs, error>>

\* tree, lines 83-85 and 89-94: the target is not placed yet.
TreePlace ==
  /\ pc = "tree"
  /\ HasNext
  /\ ChildId \in Ids
  /\ Len(stack) < MaxDepth
  /\ LET c == StoryNodes(ChildId) IN
     /\ Unplaced(nodes[c])
     /\ nodes' = [nodes EXCEPT
          ![c].parent = NodeRef(StoryNodes(Self.id)),
          ![c].previous_sibling =
             IF Top.previous_sibling # None THEN Top.previous_sibling ELSE @,
          ![c].conditions = <<Response>>]
     /\ stack' = Append(
          [stack EXCEPT ![Len(stack)].i = @ + 1,
                        ![Len(stack)].previous_sibling = NodeRef(c)],
          Frame(c))
  /\ UNCHANGED <<ptrs, pc, intents, tree, docs, error>>

\* tree, lines 86-92 and 95-96: the target is placed, a pointer is emitted.
TreePointer ==
  /\ pc = "tree"
  /\ HasNext
  /\ ChildId \in Ids
  /\ LET c == StoryNodes(ChildId)
         q == Len(ptrs) + 1
     IN
     /\ ~Unplaced(nodes[c])
     /\ ptrs' = Append(ptrs, StoryNodePointer(nodes, Top.self, c, Response,
                                              Top.previous_sibling))
     /\ stack' = [stack EXCEPT ![Len(stack)].i = @ + 1,
                               ![Len(stack)].previous_sibling = PtrRef(q),
                               ![Len(stack)].nodes = Append(@, PtrRef(q))]
  /\ UNCHANGED <<nodes, pc, intents, tree, docs, error>>

KeyError(key) == [exc |-> "KeyError", key |-> key]

\* tree, line 83: story_nodes[...] raises, nothing catches it.
TreeKeyError ==
  /\ pc = "tree"
  /\ HasNext
  /\ ChildId \notin Ids
  /\ error' = <<KeyError(ChildId)>>
  /\ pc' = "error"
  /\ stack' = <<>>
  /\ UNCHANGED <<nodes, ptrs, intents, tree, docs>>

\* tree, line 97 into line 94 of the caller.
TreeReturn ==
  /\ pc = "tree"
  /\ ~HasNext
  /\ Len(stack) > 1
  /\ stack' = [SubSeq(stack, 1, Len(stack) - 1) EXCEPT
                 ![Len(stack) - 1].nodes = @ \o Top.nodes]
  /\ UNCHANGED <<nodes, ptrs, pc, intents, tree, docs, error>>

\* the start condition not set
StartConditionSkipped(ns, t) == ns
\* tree[0].conditions = "conversation_start"
StartCondition(ns, t) ==
  [ns EXCEPT ![t[1].at].conditions = <<ConversationStart>>]

\* tree, line 97 into export, lines 170-217.
ExportReturn ==
  /\ pc = "tree"
  /\ ~HasNext
  /\ Len(stack) = 1
  /\ LET t == Top.nodes
         ns == StartCondition(nodes, t)
     IN
     /\ tree' = t
     /\ nodes' = ns
     /\ docs' = Append(docs,
          [intents |-> intents,
           dialog_nodes |-> [i \in 1..Len(t) |-> Encode(ns, ptrs, t[i])]])
  /\ stack' = <<>>
  /\ pc' = "idle"
  /\ UNCHANGED <<ptrs, intents, error>>

Walk == TreePlace \/ TreePointer \/ TreeKeyError \/ TreeReturn \/ ExportReturn

Next == Export \/ Walk

Spec == Init /\ [][Next]_vars

\* export runs synchronously to its end once called.
FairSpec == Spec /\ WF_vars(Walk)

\* =================================================================== claims
Finished == pc = "idle" /\ Len(docs) >= 1
FirstRun == pc = "idle" /\ Len(docs) = 1
Doc == docs[Len(docs)]
Root == NodeRef(1)
RootId == nodes[1].id
Placed == {tree[i] : i \in {j \in DOMAIN tree : tree[j].kind = "node"}}
EdgeInto(id) ==
  \E p \in DOMAIN nodes : \E k \in DOMAIN nodes[p].children :
     nodes[p].children[k].child = id

\* parent, previous sibling and condition of a record of the walk's result
ParentOf(ref) ==
  IF ref.kind = "node" THEN nodes[ref.at].parent ELSE NodeRef(ptrs[ref.at].source)
PrevOf(ref) ==
  IF ref.kind = "node" THEN nodes[ref.at].previous_sibling
  ELSE ptrs[ref.at].previous_sibling
CondOf(ref) ==
  IF ref.kind = "node" THEN nodes[ref.at].conditions ELSE ptrs[ref.at].conditions

\* C1: after the walk of a fresh node set, every node is placed at most
\* once: no StoryNode occurs at two positions of the returned list.
AtMostOncePlacement ==
  FirstRun =>
    \A i, j \in DOMAIN tree :
       (tree[i].kind = "node" /\ tree[i] = tree[j]) => i = j

\* C2: for A{go left->B, go right->C}, B{back->A}, C{} the encoded output is
\* exactly PlacedNode(A), PlacedNode(B, parent A, #go_left),
\* PointerNode(B->A, #back), PlacedNode(C, parent A, #go_right).
GoLeft == <<"#", "go", "_", "left">>
GoRight == <<"#", "go", "_", "right">>
Back == <<"#", "back">>
IsScenario ==
  /\ Len(nodes) = 3
  /\ nodes[1].children = << [response |-> GoLeft, child |-> "B"],
                            [response |-> GoRight, child |-> "C"] >>
  /\ nodes[2].children = << [response |-> Back, child |-> "A"] >>
  /\ nodes[3].children = <<>>
ScenarioExpected ==
  << [title |-> "A", has_output |-> TRUE, dialog_node |-> "A", parent |-> <<>>,
      previous_sibling |-> <<>>, conditions |-> <<ConversationStart>>,
      next_step |-> <<>>],
     [title |-> "B", has_output |-> TRUE, dialog_node |-> "B",
      parent |-> <<"A">>, previous_sibling |-> <<>>,
      conditions |-> <<GoLeft>>, next_step |-> <<>>],
     [title |-> "A", has_output |-> FALSE, dialog_node |-> "B-A",
      parent |-> <<"B">>, previous_sibling |-> <<>>,
      conditions |-> <<Back>>, next_step |-> <<"A">>],
     [title |-> "C", has_output |-> TRUE, dialog_node |-> "C",
      parent |-> <<"A">>, previous_sibling |-> <<"B">>,
      conditions |-> <<GoRight>>, next_step |-> <<>>] >>
ConcreteScenario ==
  (FirstRun /\ IsScenario) => Doc.dialog_nodes = ScenarioExpected

\* C3: for every walked node with at least 2 choices, the records whose
\* parent is that node are one record per choice, in choice order, chained
\* by previous_sibling, the first with no previous sibling.
ChildRecords(p) == SelectSeq(tree, LAMBDA ref : ParentOf(ref) = NodeRef(p))
SiblingOrderFidelity ==
  FirstRun =>
    \A p \in DOMAIN nodes :
       (NodeRef(p) \in Placed /\ Len(nodes[p].children) >= 2) =>
         LET R == ChildRecords(p) IN
         /\ Len(R) = Len(nodes[p].children)
         /\ PrevOf(R[1]) = None
         /\ \A k \in 2..Len(R) : PrevOf(R[k]) = R[k - 1]
         /\ \A k \in 1..Len(R) :
              R[k] # Root => CondOf(R[k]) = <<nodes[p].children[k].response>>

\* C4: whenever the walk processes an edge whose target is already placed,
\* that step emits a pointer that jumps to the target and does not recurse.
PlacedSoFar ==
  UNION {{stack[d].nodes[i] : i \in DOMAIN stack[d].nodes} : d \in DOMAIN stack}
EdgeToPlaced ==
  /\ pc = "tree"
  /\ Len(docs) = 0
  /\ HasNext
  /\ ChildId \in Ids
  /\ NodeRef(StoryNodes(ChildId)) \in PlacedSoFar
PointerCorrectness ==
  [][EdgeToPlaced =>
       /\ Len(stack') = Len(stack)
       /\ Len(ptrs') = Len(ptrs) + 1
       /\ EncodePointer(nodes', ptrs', Len(ptrs')).next_step = <<ChildId>>
       /\ stack'[Len(stack)].nodes = Append(Top.nodes, PtrRef(Len(ptrs')))]_vars

\* C5: the first record of every returned document is the placed node of the
\* root (the first input node) with the condition "conversation_start".
RootFraming ==
  Finished =>
    /\ tree[1] = Root
    /\ Doc.dialog_nodes[1].dialog_node = RootId
    /\ Doc.dialog_nodes[1].has_output
    /\ Doc.dialog_nodes[1].conditions = <<ConversationStart>>
RootFramingWitness ==
  /\ FirstRun
  /\ Len(nodes[1].children) >= 1
  /\ EdgeInto(RootId)
  /\ Len(tree) >= 3

\* C6: after the walk the root has no parent and the parent links of every
\* other placed node lead to the root (no cycle).
RECURSIVE LeadsToRoot(_, _)
LeadsToRoot(ref, fuel) ==
  IF ref = Root THEN TRUE
  ELSE IF fuel = 0 \/ ref.kind # "node" THEN FALSE
  ELSE LeadsToRoot(nodes[ref.at].parent, fuel - 1)
ParentLinkage ==
  FirstRun =>
    /\ nodes[1].parent = None
    /\ \A ref \in Placed : LeadsToRoot(ref, Len(nodes))

\* C7: every walk that export starts comes to an end (a returned document
\* or an exception), cycles, self-loops and edges to the root included.
Termination == (pc = "tree") ~> (pc # "tree")
TerminationWitness ==
  /\ FirstRun
  /\ EdgeInto(RootId)
  /\ \E p \in DOMAIN nodes : p # 1 /\ NodeRef(p) \in Placed
                             /\ EdgeInto(nodes[p].id)
  /\ Len(ptrs) >= 1

\* C8 as stated: whenever any choice of any node names a missing target,
\* export ends in an error that carries the source node id and the label,
\* and no document is returned.
Dangling(p) ==
  \E k \in DOMAIN nodes[p].children : nodes[p].children[k].child \notin Ids
Ended == pc = "error" \/ Finished
RECURSIVE ReachFrom(_)
ReachFrom(S) ==
  LET Targets(p) ==
        {nodes[p].children[k].child : k \in DOMAIN nodes[p].children} \cap Ids
      T == S \cup UNION {{StoryNodes(id) : id \in Targets(p)} : p \in S}
  IN  IF T = S THEN S ELSE ReachFrom(T)
Reachable == ReachFrom({1})
DoubleWrapped(r) == Len(r) >= 2 /\ r[1] = "#" /\ r[2] = "#"
IntentIdempotence ==
  (pc = "idle" /\ Len(docs) >= 2) =>
    /\ docs[2].intents = docs[1].intents
    /\ \A r \in AllResponses(nodes) : ~DoubleWrapped(r)

\* C10: all records of the output have pairwise distinct dialog_node ids.
UniqueRecordIds ==
  FirstRun =>
    \A i, j \in DOMAIN Doc.dialog_nodes :
       Doc.dialog_nodes[i].dialog_node = Doc.dialog_nodes[j].dialog_node
         => i = j

====
